---- MODULE Spec2Model ----
(***************************************************************************)
(* Arkhe(n) ANL typed entity / handover runtime and its callers:           *)
(* asimov_universe.py, asimov_demo.py, distillation_demo.py and            *)
(* ontological_engine.py.                                                  *)
(*                                                                         *)
(* Numbers are exact scaled integers: times in 1/TimeScale years,          *)
(* brain_potential in 1/PotScale, scientific_superiority in 1/SciScale,    *)
(* fidelity in 1/FidScale, tolerances in 1/TolScale; energy, biomass,      *)
(* subject_worlds and current_crisis in whole units.                       *)
(***************************************************************************)
EXTENDS Integers, Sequences, FiniteSets, TLC

VARIABLES driver, pc, nodes, declared, handovers, ret, lastT, steps, log

vars == <<driver, pc, nodes, declared, handovers, ret, lastT, steps, log>>

\* ------------------------------------------------------------------ bounds
TimeScale == 2
MaxCrises == 3
MaxSteps == 3
MaxExec == 2
MaxLen == 2

\* ------------------------------------------------------- program constants
PotScale == 1000
SciScale == 10 ^ (MaxCrises + 1)
FidScale == 100
TolScale == 1000000000

Year(y) == y * TimeScale

Abs(x) == IF x < 0 THEN -x ELSE x
Min(a, b) == IF a < b THEN a ELSE b

\* ------------------------------------------------------------ python values
Num(n) == [rep |-> "num", val |-> n]
Bool(b) == [rep |-> "bool", val |-> b]
Str(s) == [rep |-> "str", val |-> s]
Arr(s) == [rep |-> "array", val |-> s]
List(s) == [rep |-> "list", val |-> s]
Dict(s) == [rep |-> "dict", val |-> s]
Callable(s) == [rep |-> "callable", val |-> s]
Ref(id) == [rep |-> "node", val |-> id]
None == [rep |-> "none", val |-> 0]

\* np.array(list): a one-dimensional array holding the list's elements
np_array(l) == Arr(l.val)

\* the dimensionality of a value (its numpy shape)
Dims(d) == IF d.rep \in {"array", "list"} THEN <<Len(d.val)>> ELSE <<>>

\* python truthiness, as used by `if energy_gain:`
Truthy(d) ==
  CASE d.rep = "num" -> d.val # 0
    [] d.rep = "bool" -> d.val
    [] d.rep = "none" -> FALSE
    [] d.rep = "str" -> d.val # ""
    [] d.rep \in {"array", "list"} -> Len(d.val) > 0
    [] OTHER -> TRUE

\* ------------------------------------------------- ValueKind and TypedValue
ANLType == {"SCALAR", "VECTOR", "FUNCTION", "NODE"}

\* validation of data against (kind, shape): "ok" or the error it raises
Validate(kind, shape, data) ==
  CASE kind = "SCALAR" ->
         IF data.rep \in {"num", "bool", "str"} THEN "ok" ELSE "TypeMismatch"
    [] kind = "VECTOR" ->
         IF Dims(data) # shape THEN "ShapeMismatch"
         ELSE IF data.rep \in {"array", "list"} THEN "ok" ELSE "TypeMismatch"
    [] kind = "FUNCTION" -> "ok"
    [] kind = "NODE" -> IF data.rep = "node" THEN "ok" ELSE "TypeMismatch"

\* ANLValue(kind, shape, data): the arguments of one TypedValue construction
ANLValue(kind, shape, data) == [kind |-> kind, shape |-> shape, data |-> data]

\* the first validation error among the attribute values of a Node(...) call
AttrError(attrs) ==
  IF \A a \in DOMAIN attrs : Validate(attrs[a].kind, attrs[a].shape, attrs[a].data) = "ok"
  THEN "ok"
  ELSE IF \E a \in DOMAIN attrs : Validate(attrs[a].kind, attrs[a].shape, attrs[a].data) = "TypeMismatch"
       THEN "TypeMismatch" ELSE "ShapeMismatch"

\* TypedValue.set(new_data): replace-or-reject against the stored (kind, shape)
TypedValueSet(tv, data) ==
  IF Validate(tv.kind, tv.shape, data) = "ok"
  THEN [tv EXCEPT !.data = data]
  ELSE tv

\* ------------------------------------------------------------------- Entity
\* Node(id, state_space, attributes) added to the store ns
AddNode(ns, id, attrs) == [n \in DOMAIN ns \cup {id} |-> IF n = id THEN attrs ELSE ns[n]]

AddDeclared(ds, id, attrs) == [n \in DOMAIN ds \cup {id} |-> IF n = id THEN DOMAIN attrs ELSE ds[n]]

\* node.attributes[name].data
Data(ns, id, name) == ns[id][name].data

\* node.attributes[name].data = value  (a plain attribute assignment)
WriteData(ns, id, name, value) == [ns EXCEPT ![id][name].data = value]

\* the outcome of the last call: what it returned or the error it raised
RetFull(op, status, value, handover, fidelity, arg) ==
  [op |-> op, status |-> status, value |-> value,
   handover |-> handover, fidelity |-> fidelity, arg |-> arg, name |-> ""]

RetAttr(op, status, value, name, arg) ==
  [op |-> op, status |-> status, value |-> value,
   handover |-> "", fidelity |-> None, arg |-> arg, name |-> name]

Ret(op, status, value) == RetFull(op, status, value, "", None, None)

\* ------------------------------------------------ asimov_universe.py: models
\* RobotModel.__init__: the attributes handed to Node(...)
RobotModel(model, series, brain_potential) ==
  [model |-> ANLValue("SCALAR", <<>>, Str(model)),
   series |-> ANLValue("SCALAR", <<>>, Str(series)),
   brain_potential |-> ANLValue("SCALAR", <<>>, Num(brain_potential)),
   zeroth_law_aware |-> ANLValue("SCALAR", <<>>, Bool(FALSE)),
   mentalic_power |-> ANLValue("SCALAR", <<>>, Num(0))]

\* PlanetModel.__init__: coords is always declared with shape (3,)
PlanetModel(name, coords, population, tech_level) ==
  [name |-> ANLValue("SCALAR", <<>>, Str(name)),
   coords |-> ANLValue("VECTOR", <<3>>, np_array(coords)),
   population |-> ANLValue("SCALAR", <<>>, Num(population)),
   technological_level |-> ANLValue("SCALAR", <<>>, Num(tech_level)),
   robot_density |-> ANLValue("SCALAR", <<>>, Num(0))]

\* FoundationModel.__init__ (scientific_superiority 0.8, subject_worlds 1.0)
FoundationModel(founding_year) ==
  [founding_year |-> ANLValue("SCALAR", <<>>, Num(founding_year)),
   phase |-> ANLValue("SCALAR", <<>>, Str("Encyclopedia")),
   scientific_superiority |-> ANLValue("SCALAR", <<>>, Num((8 * SciScale) \div 10)),
   subject_worlds |-> ANLValue("SCALAR", <<>>, Num(1)),
   current_crisis |-> ANLValue("SCALAR", <<>>, Num(0))]

\* PsychohistoryModel.__init__ (accuracy in 1/FidScale)
PsychohistoryModel(accuracy) ==
  [accuracy |-> ANLValue("SCALAR", <<>>, Num(accuracy)),
   crisis_predicted |-> ANLValue("SCALAR", <<>>, Bool(FALSE))]

\* update_phase with the first threshold inclusive
PhaseOfAge_inclusive(age) ==
  IF age <= 50 * TimeScale THEN "Encyclopedia"
  ELSE IF age < 150 * TimeScale THEN "Scientism"
  ELSE IF age < 300 * TimeScale THEN "Trade"
  ELSE "Federation"

\* FoundationModel.update_phase: the phase chosen for an age
PhaseOfAge(age) ==
  IF age < 50 * TimeScale THEN "Encyclopedia"
  ELSE IF age < 150 * TimeScale THEN "Scientism"
  ELSE IF age < 300 * TimeScale THEN "Trade"
  ELSE "Federation"

\* FoundationModel.update_phase(current_time) on the node fid
update_phase(ns, fid, current_time) ==
  WriteData(ns, fid, "phase",
            Str(PhaseOfAge(current_time - Data(ns, fid, "founding_year").val)))

\* evolve storing the function min instead of its result
evolve_stores_min(ns, rid, dt, experience) ==
  LET pot == Data(ns, rid, "brain_potential").val + dt
      ns1 == WriteData(ns, rid, "brain_potential", Callable("min"))
  IN IF pot * 10 > 9 * PotScale /\ experience > 1000
     THEN WriteData(ns1, rid, "zeroth_law_aware", Bool(TRUE))
     ELSE ns1

\* RobotModel.evolve(dt, experience) on the node rid (dt in 1/PotScale units)
evolve(ns, rid, dt, experience) ==
  LET pot == Data(ns, rid, "brain_potential").val + dt
      ns1 == WriteData(ns, rid, "brain_potential", Num(Min(PotScale, pot)))
  IN IF pot * 10 > 9 * PotScale /\ experience > 1000
     THEN WriteData(ns1, rid, "zeroth_law_aware", Bool(TRUE))
     ELSE ns1

\* inheritance_daneel(daneel_node, target_node, current_time), in 1/10
inheritance_daneel(current_time) ==
  IF current_time < Year(3624) THEN 9
  ELSE IF current_time < Year(12000) THEN 5
  ELSE 3

\* seldon_crisis firing also at a distance of exactly one year
CrisisFires_inclusive(current_time, crisis_time) ==
  Abs(current_time - crisis_time) <= 1 * TimeScale

\* seldon_crisis: whether the crisis fires
CrisisFires(current_time, crisis_time) ==
  Abs(current_time - crisis_time) < 1 * TimeScale

\* seldon_crisis(foundation_node, psychohistory_node, current_time, crisis_time)
seldon_crisis(ns, fid, pid, current_time, crisis_time) ==
  IF CrisisFires(current_time, crisis_time)
  THEN LET n1 == WriteData(ns, fid, "current_crisis",
                           Num(Data(ns, fid, "current_crisis").val + 1))
           n2 == WriteData(n1, fid, "scientific_superiority",
                           Num((Data(n1, fid, "scientific_superiority").val * 11) \div 10))
           n3 == WriteData(n2, fid, "subject_worlds",
                           Num(Data(n2, fid, "subject_worlds").val + 2))
       IN [nodes |-> n3, value |-> Bool(TRUE)]
  ELSE [nodes |-> ns, value |-> Bool(FALSE)]

\* mentalic_manipulation creating stability_index on a target without it
mentalic_manipulation_creates(ns, sid, tid, power) ==
  IF Data(ns, sid, "mentalic_power").val >= power
  THEN [nodes |-> IF "stability_index" \in DOMAIN ns[tid]
                  THEN WriteData(ns, tid, "stability_index",
                                 Num(Data(ns, tid, "stability_index").val \div 2))
                  ELSE [ns EXCEPT ![tid] =
                          [a \in DOMAIN ns[tid] \cup {"stability_index"} |->
                             IF a = "stability_index"
                             THEN ANLValue("SCALAR", <<>>, Num(1))
                             ELSE ns[tid][a]]],
        value |-> Bool(TRUE)]
  ELSE [nodes |-> ns, value |-> Bool(FALSE)]

\* mentalic_manipulation(source_node, target_node, power)
mentalic_manipulation(ns, sid, tid, power) ==
  IF Data(ns, sid, "mentalic_power").val >= power
  THEN [nodes |-> IF "stability_index" \in DOMAIN ns[tid]
                  THEN WriteData(ns, tid, "stability_index",
                                 Num(Data(ns, tid, "stability_index").val \div 2))
                  ELSE ns,
        value |-> Bool(TRUE)]
  ELSE [nodes |-> ns, value |-> Bool(FALSE)]

\* ---------------------------------------------------- ontological_engine.py
OntologyNames == {"HumanCommonSense", "ASI_Level_7"}

OntologyId(name) == "Ontology_" \o name

ASIId(name) == "ASI_" \o name

\* the nodes whose class defines translate()
HasTranslate(id) == id \in {OntologyId(n) : n \in OntologyNames}

\* Ontology.__init__ declaring categories with one dimension too many
Ontology_off_by_one(name, categories, relations) ==
  [name |-> ANLValue("SCALAR", <<>>, Str(name)),
   categories |-> ANLValue("VECTOR", <<Len(categories.val) + 1>>, np_array(categories)),
   relations |-> ANLValue("FUNCTION", <<>>, relations),
   coherence_score |-> ANLValue("SCALAR", <<>>, Num(9)),
   explanatory_power |-> ANLValue("SCALAR", <<>>, Num(8))]

\* Ontology.__init__: categories is declared with shape (len(categories),)
Ontology(name, categories, relations) ==
  [name |-> ANLValue("SCALAR", <<>>, Str(name)),
   categories |-> ANLValue("VECTOR", <<Len(categories.val)>>, np_array(categories)),
   relations |-> ANLValue("FUNCTION", <<>>, relations),
   coherence_score |-> ANLValue("SCALAR", <<>>, Num(9)),
   explanatory_power |-> ANLValue("SCALAR", <<>>, Num(8))]

\* ASI.__init__
ASI(name, core_ontology) ==
  [core_ontology |-> ANLValue("NODE", <<>>, Ref(core_ontology)),
   understanding_level |-> ANLValue("SCALAR", <<>>, Num(10))]

\* Ontology.translate(statement, source_ontology)
translate(self, statement, source_ontology) ==
  Str("Statement '" \o statement \o "' translated from " \o source_ontology \o " to " \o self)

\* ------------------------------------------------------ map_state functions
\* a map_state call yields its status, its value and the store it leaves
MapResult(status, value, ns) == [status |-> status, value |-> value, nodes |-> ns]

MapFn(fn, statement) == [fn |-> fn, statement |-> statement]

\* eat_grass_fn applying the effect on the grass itself
eat_grass_fn_applies(ns, src) ==
  MapResult("ok", Num(10),
            WriteData(ns, "Grass_Patch", "biomass",
                      Num(Data(ns, "Grass_Patch", "biomass").val - 10)))

\* eat_grass_fn whose gain depends on the executions made so far
eat_grass_fn_stateful(ns, src) == MapResult("ok", Num(10 + Len(log)), ns)

\* distillation_demo.py eat_grass_fn(src)
eat_grass_fn(ns, src) == MapResult("ok", Num(10), ns)

\* a caller-supplied mapping that transfers nothing
idle_fn(ns, src) == MapResult("ok", Num(0), ns)

\* OntologicalCommunication.__init__.map_fn(src): target.translate(statement, source)
map_fn(ns, source, target, statement) ==
  IF HasTranslate(target)
  THEN MapResult("ok", translate(target, statement, source), ns)
  ELSE MapResult("AttributeError", None, ns)

\* ----------------------------------------------------------------- Handover
Protocols == {"CONSERVATIVE", "TRANSMUTATIVE"}

\* Handover(id, source, target, protocol, map_state, fidelity): the error
\* the construction raises, or "ok"
HandoverError(protocol, fidelity) ==
  IF protocol = "TRANSMUTATIVE"
  THEN IF fidelity = None THEN "MissingFidelity"
       ELSE IF fidelity.val < 0 \/ fidelity.val > FidScale THEN "FidelityOutOfRange"
       ELSE "ok"
  ELSE "ok"

HandoverRec(id, source, target, protocol, map_state, fidelity) ==
  [id |-> id, source |-> source, target |-> target, protocol |-> protocol,
   map_state |-> map_state,
   fidelity |-> IF protocol = "TRANSMUTATIVE" THEN fidelity ELSE None]

AddHandover(hs, h) == [i \in DOMAIN hs \cup {h.id} |-> IF i = h.id THEN h ELSE hs[i]]

\* OntologicalCommunication passing the fidelity as a percentage
OntologicalCommunication_percent(source, target, statement) ==
  HandoverRec("Comm_" \o source \o "_" \o target, source, target,
              "TRANSMUTATIVE", MapFn("map_fn", statement), Num(95 * FidScale))

\* OntologicalCommunication.__init__: the arguments it hands to Handover
OntologicalCommunication(source, target, statement) ==
  HandoverRec("Comm_" \o source \o "_" \o target, source, target,
              "TRANSMUTATIVE", MapFn("map_fn", statement), Num(95))

\* the call map_state(source) of a handover
CallMapState(h, ns) ==
  CASE h.map_state.fn = "eat_grass_fn" -> eat_grass_fn(ns, h.source)
    [] h.map_state.fn = "idle_fn" -> idle_fn(ns, h.source)
    [] h.map_state.fn = "map_fn" -> map_fn(ns, h.source, h.target, h.map_state.statement)

\* Handover.execute()
execute(h, ns) ==
  LET r == CallMapState(h, ns)
  IN [nodes |-> r.nodes,
      ret |-> IF r.status = "ok"
              THEN RetFull("execute", "ok", r.value, h.id, h.fidelity, None)
              ELSE RetFull("execute", "HandoverExecutionFailed", Str(r.status),
                           h.id, h.fidelity, None)]

\* verify_conservation comparing the signed difference
verify_conservation_signed(bs, bt, as, at, tolerance) ==
  IF (bs + bt) - (as + at) > tolerance \div TolScale
  THEN "ConservationViolated" ELSE "ok"

\* verify_conservation(before_source, before_target, after_source,
\* after_target, tolerance): quantities in whole units, tolerance in
\* 1/TolScale units; a whole number exceeds t/TolScale exactly when it
\* exceeds the integer part of t/TolScale
verify_conservation(bs, bt, as, at, tolerance) ==
  IF Abs((bs + bt) - (as + at)) > tolerance \div TolScale
  THEN "ConservationViolated" ELSE "ok"

\* ------------------------------------------------------------------ drivers
Drivers ==
  {"asimov_demo", "distillation_demo", "robots", "foundation", "ecosystem",
   "handover", "attributes", "ontology"}

NoNodes == [n \in {} |-> 0]

DaneelId == "Robot_R. Daneel Olivaw"

DeclaredOf(ns) == [n \in DOMAIN ns |-> DOMAIN ns[n]]

\* distillation_demo.py lines 14-38: the three entities of the ecosystem
EcosystemNodes ==
  LET rabbit == [energy |-> ANLValue("SCALAR", <<>>, Num(100)),
                 age |-> ANLValue("SCALAR", <<>>, Num(0))]
      fox == [energy |-> ANLValue("SCALAR", <<>>, Num(150)),
              age |-> ANLValue("SCALAR", <<>>, Num(0))]
      grass == [biomass |-> ANLValue("SCALAR", <<>>, Num(500))]
  IN AddNode(AddNode(AddNode(NoNodes, "Rabbit_01", rabbit), "Fox_01", fox),
             "Grass_Patch", grass)

\* distillation_demo.py lines 45-51
EatGrass(fn) ==
  HandoverRec("EatGrass", "Rabbit_01", "Grass_Patch", "CONSERVATIVE", MapFn(fn, ""), None)

\* asimov_demo.py lines 12-18 (population in 10^5, tech_level in 1/10)
AsimovNodes(brain_potential) ==
  LET n1 == AddNode(NoNodes, DaneelId,
                    RobotModel("Humaniform", "R. Daneel Olivaw", brain_potential))
      n2 == AddNode(n1, "Planet_Earth", PlanetModel("Earth", List(<<0, 0, 0>>), 80000, 1))
      n3 == AddNode(n2, "Planet_Trantor", PlanetModel("Trantor", List(<<0, 0, 100>>), 450000, 10))
      n4 == AddNode(n3, "Planet_Terminus",
                    PlanetModel("Terminus", List(<<10000, 5000, -3000>>), 1, 5))
      n5 == AddNode(n4, "Foundation", FoundationModel(Year(23651)))
  IN AddNode(n5, "Psychohistory", PsychohistoryModel(95))

\* asimov_demo.py lines 21-29
timeline ==
  << [year |-> Year(3424), event |-> "Robot Era - Daneel serves Gladia"],
     [year |-> Year(3624), event |-> "Earth Diaspora Begins"],
     [year |-> Year(12000), event |-> "Imperial Era - Trantor at its Peak"],
     [year |-> Year(23651), event |-> "Foundation Established at Terminus"],
     [year |-> Year(23701), event |-> "First Seldon Crisis (Salvor Hardin)"],
     [year |-> Year(23801), event |-> "Second Seldon Crisis (Hober Mallow)"],
     [year |-> Year(24150), event |-> "Foundation and Earth - The Rediscovery"] >>

\* "Crisis" in event
ContainsCrisis(event) ==
  event \in {"First Seldon Crisis (Salvor Hardin)", "Second Seldon Crisis (Hober Mallow)"}

\* callers' nodes of the robots and foundation drivers: a mentalic and a polity that
\* declares stability_index (in 1/2^MaxHalvings)
MaxHalvings == 2

UniverseNodes(brain_potential) ==
  LET mule == [mentalic_power |-> ANLValue("SCALAR", <<>>, Num(10))]
      empire == [stability_index |-> ANLValue("SCALAR", <<>>, Num(2 ^ MaxHalvings))]
  IN AddNode(AddNode(AsimovNodes(brain_potential), "Mule", mule), "Empire", empire)

Init ==
  /\ driver \in Drivers
  /\ pc = 0
  /\ nodes \in CASE driver \in {"robots", "foundation"} -> {UniverseNodes(b) : b \in {500, 990}}
                 [] driver \in {"ecosystem", "handover", "attributes"} -> {EcosystemNodes}
                 [] OTHER -> {NoNodes}
  /\ declared = DeclaredOf(nodes)
  /\ handovers = [h \in {} |-> 0]
  /\ ret = Ret("init", "ok", None)
  /\ lastT = None
  /\ steps = 0
  /\ log = <<>>

\* ------------------------------------------------ asimov_universe.py: calls
Times ==
  {Year(23600), Year(23651), Year(23701) - 1, Year(23701), Year(23801) - 1,
   Year(23801), Year(23951) - 1, Year(23951), Year(24150)}

CrisisOffsets == {0, 1, -1, TimeScale - 1, TimeScale, -TimeScale, 50 * TimeScale}

\* RobotModel.evolve on R. Daneel
Evolve(dt, experience) ==
  /\ driver = "robots"
  /\ nodes' = evolve(nodes, DaneelId, dt, experience)
  /\ ret' = Ret("evolve", "ok", None)
  /\ UNCHANGED <<driver, pc, declared, handovers, lastT, steps, log>>

\* FoundationModel.update_phase
UpdatePhase(t) ==
  /\ driver = "foundation"
  /\ nodes' = update_phase(nodes, "Foundation", t)
  /\ lastT' = Num(t)
  /\ ret' = RetFull("update_phase", "ok", None, "", None, Num(t))
  /\ UNCHANGED <<driver, pc, declared, handovers, steps, log>>

\* seldon_crisis(foundation.node, psychohistory.node, ct, ct + off)
SeldonCrisis(ct, off) ==
  /\ driver = "foundation"
  /\ Data(nodes, "Foundation", "current_crisis").val < MaxCrises
  /\ LET r == seldon_crisis(nodes, "Foundation", "Psychohistory", ct, ct + off)
     IN /\ nodes' = r.nodes
        /\ ret' = RetFull("seldon_crisis", "ok", r.value, "", None, Num(off))
  /\ UNCHANGED <<driver, pc, declared, handovers, lastT, steps, log>>

\* mentalic_manipulation(source, target, power); a source that declares no
\* mentalic_power raises KeyError at line 107
MentalicManipulation(sid, tid, power) ==
  /\ driver = "robots"
  /\ sid \in DOMAIN nodes /\ tid \in DOMAIN nodes
  /\ "stability_index" \in DOMAIN nodes[tid]
       => Data(nodes, tid, "stability_index").val % 2 = 0
  /\ IF "mentalic_power" \in DOMAIN nodes[sid]
     THEN LET r == mentalic_manipulation(nodes, sid, tid, power)
          IN /\ nodes' = r.nodes
             /\ ret' = RetAttr("mentalic_manipulation", "ok", r.value, tid, Num(power))
     ELSE /\ nodes' = nodes
          /\ ret' = RetAttr("mentalic_manipulation", "KeyError", None, tid, Num(power))
  /\ UNCHANGED <<driver, pc, declared, handovers, lastT, steps, log>>

\* ------------------------------------------------------ run_asimov_demo
\* lines 12-18: the nodes are constructed; a failed construction aborts
AsimovDemoInit ==
  /\ driver = "asimov_demo" /\ pc = 0
  /\ LET ns == AsimovNodes(990)
         errs == {AttrError(ns[n]) : n \in DOMAIN ns} \ {"ok"}
     IN IF errs = {}
        THEN /\ nodes' = ns
             /\ declared' = DeclaredOf(ns)
             /\ pc' = 1
             /\ ret' = Ret("run_asimov_demo.init", "ok", None)
        ELSE /\ UNCHANGED <<nodes, declared>>
             /\ pc' = -1
             /\ ret' = Ret("run_asimov_demo.init", CHOOSE e \in errs : TRUE, None)
  /\ UNCHANGED <<driver, handovers, lastT, steps, log>>

\* lines 34-45: one iteration of the timeline loop
AsimovDemoEvent ==
  /\ driver = "asimov_demo" /\ pc \in 1..Len(timeline)
  /\ LET year == timeline[pc].year
         event == timeline[pc].event
         influence == inheritance_daneel(year)
         n1 == IF year >= Year(23651) THEN update_phase(nodes, "Foundation", year) ELSE nodes
         n2 == IF year >= Year(23651) /\ ContainsCrisis(event)
               THEN seldon_crisis(n1, "Foundation", "Psychohistory", year, year).nodes
               ELSE n1
     IN /\ nodes' = n2
        /\ lastT' = IF year >= Year(23651) THEN Num(year) ELSE lastT
        /\ ret' = RetFull("run_asimov_demo.event", "ok", Num(influence), "", None, Num(year))
  /\ pc' = pc + 1
  /\ UNCHANGED <<driver, declared, handovers, steps, log>>

\* lines 48-51: the final report reads the phase
AsimovDemoReport ==
  /\ driver = "asimov_demo" /\ pc = Len(timeline) + 1
  /\ ret' = Ret("run_asimov_demo.report", "ok", Data(nodes, "Foundation", "phase"))
  /\ pc' = pc + 1
  /\ UNCHANGED <<driver, nodes, declared, handovers, lastT, steps, log>>

\* ------------------------------------------------------------ runtime calls
Fidelities == {None, Num(-5), Num(0), Num(95), Num(FidScale), Num(150)}

HandoverIds == {"EatGrass", "EatGrass_2"}

\* Handover(id, source=rabbit, target=grass, protocol, map_state, fidelity)
NewHandover(id, protocol, fn, fidelity) ==
  /\ \/ driver = "handover"
     \/ driver = "ecosystem" /\ protocol = "CONSERVATIVE" /\ fidelity = None
  /\ id \notin DOMAIN handovers
  /\ LET h == [EatGrass(fn) EXCEPT !.id = id, !.protocol = protocol,
                                   !.fidelity = IF protocol = "TRANSMUTATIVE"
                                                THEN fidelity ELSE None]
         e == HandoverError(protocol, fidelity)
     IN /\ handovers' = IF e = "ok" THEN AddHandover(handovers, h) ELSE handovers
        /\ ret' = RetFull("Handover", e, None, id, fidelity, Str(protocol))
  /\ UNCHANGED <<driver, pc, nodes, declared, lastT, steps, log>>

\* handover.execute()
Execute(id) ==
  /\ driver \in {"ecosystem", "handover", "ontology"}
  /\ id \in DOMAIN handovers
  /\ Len(log) < MaxExec
  /\ LET h == handovers[id]
         r == execute(h, nodes)
     IN /\ nodes' = r.nodes
        /\ ret' = r.ret
        /\ log' = Append(log, [handover |-> id, src |-> nodes[h.source],
                               status |-> r.ret.status, value |-> r.ret.value])
  /\ UNCHANGED <<driver, pc, declared, handovers, lastT, steps>>

\* the apply step without the subtraction from the grass
apply_gain_source_only(ns, energy_gain) ==
  IF Truthy(energy_gain)
  THEN WriteData(ns, "Rabbit_01", "energy",
                 Num(Data(ns, "Rabbit_01", "energy").val + energy_gain.val))
  ELSE ns

\* distillation_demo.py lines 58-60: the caller applies energy_gain
apply_gain(ns, energy_gain) ==
  IF Truthy(energy_gain)
  THEN LET n1 == WriteData(ns, "Rabbit_01", "energy",
                           Num(Data(ns, "Rabbit_01", "energy").val + energy_gain.val))
       IN WriteData(n1, "Grass_Patch", "biomass",
                    Num(Data(n1, "Grass_Patch", "biomass").val - energy_gain.val))
  ELSE ns

Apply ==
  /\ driver = "ecosystem"
  /\ ret.op = "execute" /\ ret.status = "ok"
  /\ steps < MaxSteps
  /\ nodes' = apply_gain(nodes, ret.value)
  /\ steps' = steps + 1
  /\ ret' = RetFull("apply", "ok", ret.value, ret.handover, None, None)
  /\ UNCHANGED <<driver, pc, declared, handovers, lastT, log>>

Tolerances == {0, 1, TolScale, 2 * TolScale}

\* verify_conservation on before/after snapshots supplied by the caller
VerifyConservation(bs, bt, as, at, tolerance) ==
  /\ driver = "attributes"
  /\ ret' = RetFull("verify_conservation", verify_conservation(bs, bt, as, at, tolerance),
                    None, "", None, <<bs, bt, as, at, tolerance>>)
  /\ UNCHANGED <<driver, pc, nodes, declared, handovers, lastT, steps, log>>

AttrNames == {"energy", "age", "stability_index"}

AttrData == {Num(150), Num(160), Bool(TRUE), Callable("eat_grass_fn"), Arr(<<1, 2>>)}

\* Node.get_attribute(name)
GetAttribute(id, name) ==
  /\ driver = "attributes"
  /\ id \in DOMAIN nodes
  /\ ret' = IF name \in DOMAIN nodes[id]
            THEN RetAttr("get_attribute", "ok", nodes[id][name].data, name, None)
            ELSE RetAttr("get_attribute", "UnknownAttribute", None, name, None)
  /\ UNCHANGED <<driver, pc, nodes, declared, handovers, lastT, steps, log>>

\* Node.set_attribute(name, data): delegates to TypedValue.set
set_attribute(ns, id, name, data) ==
  IF name \in DOMAIN ns[id]
  THEN [ns EXCEPT ![id][name] = TypedValueSet(@, data)]
  ELSE ns

SetAttribute(id, name, data) ==
  /\ driver = "attributes"
  /\ id \in DOMAIN nodes
  /\ nodes' = set_attribute(nodes, id, name, data)
  /\ ret' = RetAttr("set_attribute",
                    IF name \notin DOMAIN nodes[id] THEN "UnknownAttribute"
                    ELSE Validate(nodes[id][name].kind, nodes[id][name].shape, data),
                    None, name, data)
  /\ UNCHANGED <<driver, pc, declared, handovers, lastT, steps, log>>

\* ------------------------------------------------------ run_distillation_demo
DistillationDemoStep ==
  /\ driver = "distillation_demo"
  /\ CASE pc = 0 ->
            /\ nodes' = EcosystemNodes
            /\ declared' = DeclaredOf(EcosystemNodes)
            /\ ret' = Ret("run_distillation_demo.init", "ok", None)
            /\ UNCHANGED <<handovers, log>>
       [] pc = 1 ->
            /\ handovers' = AddHandover(handovers, EatGrass("eat_grass_fn"))
            /\ ret' = RetFull("Handover", HandoverError("CONSERVATIVE", None), None,
                              "EatGrass", None, Str("CONSERVATIVE"))
            /\ UNCHANGED <<nodes, declared, log>>
       [] pc = 2 ->
            /\ LET r == execute(handovers["EatGrass"], nodes)
               IN /\ nodes' = r.nodes
                  /\ ret' = r.ret
                  /\ log' = Append(log, [handover |-> "EatGrass", src |-> nodes["Rabbit_01"],
                                         status |-> r.ret.status, value |-> r.ret.value])
            /\ UNCHANGED <<declared, handovers>>
       [] pc = 3 ->
            /\ ret.status = "ok"
            /\ nodes' = apply_gain(nodes, ret.value)
            /\ ret' = RetFull("apply", "ok", ret.value, ret.handover, None, None)
            /\ UNCHANGED <<declared, handovers, log>>
       [] OTHER -> FALSE
  /\ pc' = pc + 1
  /\ UNCHANGED <<driver, lastT, steps>>

\* -------------------------------------------------- ontological_engine calls
\* ontological_demo.py lines 8-19: the categories of the two ontologies
DemoCategories(name) ==
  IF name = "HumanCommonSense"
  THEN <<"object", "cause", "time", "life", "meaning">>
  ELSE <<"process", "information", "entropy", "topology">>

CategoryLists(name) ==
  {List(DemoCategories(name))}
    \cup {List(SubSeq(DemoCategories(name), 1, k)) : k \in 1..Min(MaxLen, Len(DemoCategories(name)))}

\* Ontology(name, categories, relations)
NewOntology(name, categories) ==
  /\ driver = "ontology"
  /\ OntologyId(name) \notin DOMAIN nodes
  /\ LET attrs == Ontology(name, categories, Dict(name))
         e == AttrError(attrs)
     IN /\ nodes' = IF e = "ok" THEN AddNode(nodes, OntologyId(name), attrs) ELSE nodes
        /\ declared' = IF e = "ok" THEN AddDeclared(declared, OntologyId(name), attrs)
                       ELSE declared
        /\ ret' = RetAttr("Ontology", e, None, OntologyId(name), categories)
  /\ UNCHANGED <<driver, pc, handovers, lastT, steps, log>>

\* ASI(name, core_ontology)
NewASI(name, core) ==
  /\ driver = "ontology"
  /\ core \in DOMAIN nodes /\ HasTranslate(core)
  /\ ASIId(name) \notin DOMAIN nodes
  /\ LET attrs == ASI(name, core)
         e == AttrError(attrs)
     IN /\ nodes' = IF e = "ok" THEN AddNode(nodes, ASIId(name), attrs) ELSE nodes
        /\ declared' = IF e = "ok" THEN AddDeclared(declared, ASIId(name), attrs)
                       ELSE declared
        /\ ret' = RetAttr("ASI", e, None, ASIId(name), None)
  /\ UNCHANGED <<driver, pc, handovers, lastT, steps, log>>

Statements == {"What is the meaning of life?"}

\* OntologicalCommunication(source, target, statement)
NewOntologicalCommunication(source, target, statement) ==
  /\ driver = "ontology"
  /\ source \in DOMAIN nodes /\ target \in DOMAIN nodes /\ source # target
  /\ LET h == OntologicalCommunication(source, target, statement)
         e == HandoverError(h.protocol, h.fidelity)
     IN /\ h.id \notin DOMAIN handovers
        /\ handovers' = IF e = "ok" THEN AddHandover(handovers, h) ELSE handovers
        /\ ret' = RetFull("OntologicalCommunication", e, None, h.id, h.fidelity,
                          Str(h.protocol))
  /\ UNCHANGED <<driver, pc, nodes, declared, lastT, steps, log>>

Shapes == {<<>>, <<2>>, <<3>>}

ValueData ==
  {Num(1), Str("Trade"), Bool(FALSE), Callable("eat_grass_fn"), Ref("Foundation"),
   Arr(<<1, 2>>), Arr(<<0, 0, 100>>)}

\* ANLValue(kind, shape, data) followed by a get() of the new value
NewValue(kind, shape, data) ==
  /\ driver = "attributes"
  /\ LET e == Validate(kind, shape, data)
         tv == ANLValue(kind, shape, data)
     IN ret' = RetFull("ANLValue", e, IF e = "ok" THEN tv.data ELSE None, "", None, tv)
  /\ UNCHANGED <<driver, pc, nodes, declared, handovers, lastT, steps, log>>

\* ----------------------------------------------------------------- the spec
Next ==
  \/ \E dt \in {250, 450}, experience \in {1000, 1001} : Evolve(dt, experience)
  \/ \E t \in Times : UpdatePhase(t)
  \/ \E ct \in {Year(23701), Year(23801)}, off \in CrisisOffsets : SeldonCrisis(ct, off)
  \/ \E sid \in {DaneelId, "Mule", "Empire"}, tid \in {"Empire", "Foundation"},
        power \in {0, 5, 20} : MentalicManipulation(sid, tid, power)
  \/ AsimovDemoInit
  \/ AsimovDemoEvent
  \/ AsimovDemoReport
  \/ DistillationDemoStep
  \/ \E id \in HandoverIds, protocol \in Protocols, fn \in {"eat_grass_fn", "idle_fn"},
        fidelity \in Fidelities : NewHandover(id, protocol, fn, fidelity)
  \/ \E id \in DOMAIN handovers : Execute(id)
  \/ Apply
  \/ \E as \in {100, 110}, at \in {488, 489, 490, 491, 500}, tolerance \in Tolerances :
        VerifyConservation(100, 500, as, at, tolerance)
  \/ \E name \in AttrNames : GetAttribute("Fox_01", name)
  \/ \E name \in AttrNames, data \in AttrData : SetAttribute("Fox_01", name, data)
  \/ \E name \in OntologyNames : \E categories \in CategoryLists(name) :
        NewOntology(name, categories)
  \/ \E core \in DOMAIN nodes : NewASI("Arkhe-ASI", core)
  \/ \E source \in {OntologyId("HumanCommonSense")}, target \in DOMAIN nodes,
        statement \in Statements :
        NewOntologicalCommunication(source, target, statement)
  \/ \E kind \in ANLType, shape \in Shapes, data \in ValueData : NewValue(kind, shape, data)

Spec == Init /\ [][Next]_vars

TypeOK ==
  /\ driver \in Drivers
  /\ DOMAIN declared = DOMAIN nodes
  /\ steps \in 0..MaxSteps
  /\ Len(log) <= MaxExec

\* =================================================================== claims
HasEcosystem == {"Rabbit_01", "Grass_Patch"} \subseteq DOMAIN nodes

HasFoundation == "Foundation" \in DOMAIN nodes

Energy == Data(nodes, "Rabbit_01", "energy").val

Biomass == Data(nodes, "Grass_Patch", "biomass").val

Phase == Data(nodes, "Foundation", "phase").val

Crises == Data(nodes, "Foundation", "current_crisis").val

Worlds == Data(nodes, "Foundation", "subject_worlds").val

Superiority == Data(nodes, "Foundation", "scientific_superiority").val

\* C1: execute() leaves every attribute of every entity as it was, whether
\* it returns a value or signals HandoverExecutionFailed with the handover
\* id; entity attributes change only in the caller's apply step.
C1_ExecuteMutatesNothing ==
  [][/\ ret'.op = "execute" =>
          /\ nodes' = nodes
          /\ ret'.status \in {"ok", "HandoverExecutionFailed"}
          /\ ret'.handover \in DOMAIN handovers
          /\ ret'.status = "HandoverExecutionFailed" => ret'.value = Str("AttributeError")
     /\ (driver \in {"ecosystem", "handover", "distillation_demo"}
           /\ HasEcosystem /\ nodes' # nodes) => ret'.op = "apply"]_vars

\* C1 witness: one execution returned a value and another one failed
C1_Witness ==
  /\ ret.op = "execute" /\ ret.status = "HandoverExecutionFailed"
  /\ ret.handover \in DOMAIN handovers
  /\ \E i \in DOMAIN log : log[i].status = "ok"

\* C2: the eat-grass handover yields 10, applying it gives energy 110 and
\* biomass 490, and energy + biomass stays 600 after any number of
\* execute-then-apply steps, also when the value is 0 and nothing is applied.
C2_ConservativeTransfer ==
  /\ HasEcosystem => Energy + Biomass = 600
  /\ (driver = "distillation_demo" /\ pc = 3) =>
       (ret.op = "execute" /\ ret.value = Num(10) /\ Energy = 100 /\ Biomass = 500)
  /\ (driver = "distillation_demo" /\ pc = 4) => (Energy = 110 /\ Biomass = 490)
  /\ (HasEcosystem /\ ret.op = "apply") =>
       \E k \in 0..MaxSteps : Energy = 100 + 10 * k /\ Biomass = 500 - 10 * k

\* C2 witness: two execute-then-apply steps, one of them with value 0
C2_Witness ==
  /\ driver = "ecosystem" /\ steps = 2 /\ ret.op = "apply"
  /\ Energy = 110 /\ Biomass = 490
  /\ \E i \in DOMAIN log : log[i].value = Num(0)

\* |d| > tolerance / TolScale, for tolerances of at most 2 units (the
\* product stays within 32 bits)
ExceedsTolerance(d, tolerance) ==
  IF Abs(d) > 2 THEN TRUE ELSE Abs(d) * TolScale > tolerance

\* C3: verify_conservation fails with ConservationViolated exactly when
\* |(bs + bt) - (as + at)| > tolerance; it passes for (100, 500, 110, 490),
\* fails for (100, 500, 110, 500), and changes no entity attribute.
C3_VerifyConservation ==
  [][ret'.op = "verify_conservation" =>
       LET a == ret'.arg
           d == (a[1] + a[2]) - (a[3] + a[4])
       IN /\ a[5] <= 2 * TolScale
          /\ (ret'.status = "ConservationViolated") <=> ExceedsTolerance(d, a[5])
          /\ ret'.status \in {"ok", "ConservationViolated"}
          /\ <<a[1], a[2], a[3], a[4]>> = <<100, 500, 110, 490>> => ret'.status = "ok"
          /\ <<a[1], a[2], a[3], a[4]>> = <<100, 500, 110, 500>>
               => ret'.status = "ConservationViolated"
          /\ nodes' = nodes]_vars

\* C3 witness: the check failed on (100, 500, 110, 500) with tolerance 1e-9
C3_Witness ==
  /\ ret.op = "verify_conservation" /\ ret.status = "ConservationViolated"
  /\ ret.arg = <<100, 500, 110, 500, 1>>

InRange(f) == f # None /\ f.val >= 0 /\ f.val <= FidScale

\* C4: a Transmutative construction succeeds only with a fidelity in [0,1]
\* (MissingFidelity when omitted, FidelityOutOfRange outside [0,1]); an
\* existing Transmutative handover has a fidelity in [0,1] that never changes
\* and that every execute() result exposes (0.95 for those built with 0.95);
\* a Conservative handover is constructed without fidelity.
C4_Fidelity ==
  [][/\ ret'.op \in {"Handover", "OntologicalCommunication"} =>
          /\ ret'.arg = Str("TRANSMUTATIVE") =>
               /\ ret'.fidelity = None => ret'.status = "MissingFidelity"
               /\ (ret'.fidelity # None /\ ~InRange(ret'.fidelity))
                    => ret'.status = "FidelityOutOfRange"
               /\ InRange(ret'.fidelity) => ret'.status = "ok"
          /\ ret'.arg = Str("CONSERVATIVE") => ret'.status = "ok"
          /\ ret'.status = "ok" <=> ret'.handover \in DOMAIN handovers' \ DOMAIN handovers
          /\ ret'.status # "ok" => handovers' = handovers
     /\ ret'.op = "OntologicalCommunication" =>
          (ret'.status = "ok" /\ handovers'[ret'.handover].fidelity = Num(95))
     /\ \A i \in DOMAIN handovers' :
          IF handovers'[i].protocol = "TRANSMUTATIVE"
          THEN InRange(handovers'[i].fidelity)
          ELSE handovers'[i].fidelity = None
     /\ \A i \in DOMAIN handovers :
          i \in DOMAIN handovers' /\ handovers'[i].fidelity = handovers[i].fidelity
     /\ ret'.op = "execute" => ret'.fidelity = handovers[ret'.handover].fidelity]_vars

\* C4 witness: a handover built with fidelity 0.95 executed and exposed 0.95
C4_Witness ==
  /\ ret.op = "execute" /\ ret.status = "ok" /\ ret.fidelity = Num(95)
  /\ handovers[ret.handover].protocol = "TRANSMUTATIVE"

\* C5: executions of one handover on an unchanged source return the same
\* value, and an execution records nothing in the handover.
C5_ExecuteRepeatable ==
  [][/\ \A i \in DOMAIN log' : \A j \in DOMAIN log' :
          (log'[i].handover = log'[j].handover /\ log'[i].src = log'[j].src)
            => (log'[i].status = log'[j].status /\ log'[i].value = log'[j].value)
     /\ ret'.op = "execute" => handovers' = handovers]_vars

\* C5 witness: the same handover executed twice on the same source state
C5_Witness ==
  /\ Len(log) >= 2
  /\ log[1].handover = log[2].handover /\ log[1].src = log[2].src
  /\ log[1].status = "ok"

\* every attribute's data is consistent with its declared kind and shape
AttrsValid(ns) ==
  \A n \in DOMAIN ns : \A a \in DOMAIN ns[n] :
    /\ ns[n][a].kind \in ANLType
    /\ ns[n][a].kind = "SCALAR" =>
         (ns[n][a].shape = <<>> /\ ns[n][a].data.rep \in {"num", "bool", "str"})
    /\ ns[n][a].kind = "VECTOR" =>
         (ns[n][a].data.rep = "array" /\ ns[n][a].shape = <<Len(ns[n][a].data.val)>>)
    /\ ns[n][a].kind = "NODE" => ns[n][a].data.rep = "node"

\* C6: a write of data inconsistent with the stored (kind, shape) is rejected
\* and leaves the data untouched, an accepted write replaces it, kind and
\* shape never change, and every attribute's data stays consistent with its
\* kind and shape under all the updates the callers perform.
C6_TypedWrites ==
  [][/\ AttrsValid(nodes) /\ AttrsValid(nodes')
     /\ \A n \in DOMAIN nodes : \A a \in DOMAIN nodes[n] :
          (n \in DOMAIN nodes' /\ a \in DOMAIN nodes'[n]) =>
            /\ nodes'[n][a].kind = nodes[n][a].kind
            /\ nodes'[n][a].shape = nodes[n][a].shape
     /\ (ret'.op = "set_attribute" /\ ret'.status # "ok") => nodes' = nodes
     /\ (ret'.op = "set_attribute" /\ ret'.name \in DOMAIN nodes["Fox_01"]) =>
          /\ ret'.status = "ok" <=> ret'.arg.rep \in {"num", "bool", "str"}
          /\ ret'.status = "ok" => Data(nodes', "Fox_01", ret'.name) = ret'.arg]_vars

\* C6 witness: a rejected write left the previously written energy in place
C6_Witness ==
  /\ ret.op = "set_attribute" /\ ret.status = "TypeMismatch" /\ ret.name = "energy"
  /\ Data(nodes, "Fox_01", "energy") = Num(160)

\* C7: get_attribute after a successful set_attribute returns the value set;
\* get and set on an undeclared name fail with UnknownAttribute and create
\* nothing; every entity keeps exactly the attribute names it was
\* constructed with (mentalic_manipulation writes stability_index only where
\* it is declared).
C7_ClosedAttributeSet ==
  [][/\ \A n \in DOMAIN nodes' : DOMAIN nodes'[n] = declared'[n]
     /\ \A n \in DOMAIN nodes : n \in DOMAIN nodes' /\ declared'[n] = declared[n]
     /\ ret'.op \in {"get_attribute", "set_attribute"} =>
          /\ ret'.status = "UnknownAttribute" <=> ret'.name \notin declared["Fox_01"]
          /\ ret'.status = "UnknownAttribute" => nodes' = nodes
     /\ (ret.op = "set_attribute" /\ ret.status = "ok"
           /\ ret'.op = "get_attribute" /\ ret'.name = ret.name) =>
          (ret'.status = "ok" /\ ret'.value = ret.arg)
     /\ (ret'.op = "mentalic_manipulation"
           /\ "stability_index" \notin declared[ret'.name]) => nodes' = nodes]_vars

\* C7 witness: a successful manipulation of a target without stability_index
C7_Witness ==
  /\ ret.op = "mentalic_manipulation" /\ ret.value = Bool(TRUE)
  /\ ret.name = "Foundation"
  /\ "stability_index" \notin DOMAIN nodes["Foundation"]

\* C8: a valid construction succeeds and get() returns exactly the data; a
\* Vector construction whose data's dimensionality differs from the shape
\* fails with ShapeMismatch and creates no value; coords is built with shape
\* (3,) and categories with shape (len(categories),), equal to the data's
\* dimensionality, so the callers' constructions succeed.
C8_ConstructRoundTrip ==
  /\ ret.op = "ANLValue" =>
       /\ ret.status = "ok" => ret.value = ret.arg.data
       /\ ret.status # "ok" => ret.value = None
       /\ (ret.arg.kind = "VECTOR" /\ Dims(ret.arg.data) # ret.arg.shape)
            => ret.status = "ShapeMismatch"
       /\ (ret.arg.kind = "VECTOR" /\ ret.arg.data.rep = "array"
             /\ <<Len(ret.arg.data.val)>> = ret.arg.shape) => ret.status = "ok"
       /\ (ret.arg.kind = "SCALAR" /\ ret.arg.data.rep \in {"num", "bool", "str"})
            => ret.status = "ok"
  /\ ret.op \in {"Ontology", "ASI", "run_asimov_demo.init"} => ret.status = "ok"
  /\ ret.op = "Ontology" =>
       /\ ret.name \in DOMAIN nodes
       /\ nodes[ret.name]["categories"].shape = <<Len(ret.arg.val)>>
       /\ nodes[ret.name]["categories"].data.val = ret.arg.val
  /\ \A n \in DOMAIN nodes : \A a \in DOMAIN nodes[n] :
       nodes[n][a].kind = "VECTOR" =>
         /\ nodes[n][a].shape = <<Len(nodes[n][a].data.val)>>
         /\ a = "coords" => nodes[n][a].shape = <<3>>

\* C8 witness: a Vector construction failed with ShapeMismatch
C8_Witness ==
  /\ ret.op = "ANLValue" /\ ret.status = "ShapeMismatch"
  /\ ret.arg.kind = "VECTOR" /\ ret.arg.data = Arr(<<1, 2>>) /\ ret.arg.shape = <<3>>

PhaseOrder == <<"Encyclopedia", "Scientism", "Trade", "Federation">>

Rank(p) == CHOOSE i \in 1..4 : PhaseOrder[i] = p

\* the phase for an age: one step up per threshold reached
ExpectedPhase(age) ==
  PhaseOrder[1 + Cardinality({th \in {50, 150, 300} : age >= th * TimeScale})]

\* the timeline events already processed by the demo loop
Processed == IF pc < 1 THEN {} ELSE 1..Min(pc - 1, Len(timeline))

\* C9: update_phase sets phase from age = t - founding_year alone
\* (Encyclopedia < 50 <= Scientism < 150 <= Trade < 300 <= Federation) and
\* changes nothing else; with non-decreasing times the phase never moves
\* backwards; the demo does not update the Foundation for years < 23651 and
\* ends in phase Federation.
C9_UpdatePhase ==
  [][/\ ret'.op = "update_phase" =>
          /\ Phase' = ExpectedPhase(ret'.arg.val - Year(23651))
          /\ nodes' = [nodes EXCEPT !["Foundation"]["phase"].data = Str(Phase')]
     /\ (ret'.op \in {"update_phase", "run_asimov_demo.event"}
           /\ lastT # None /\ lastT'.val >= lastT.val) => Rank(Phase') >= Rank(Phase)
     /\ driver = "asimov_demo" =>
          /\ (\A i \in Processed' : timeline[i].year < Year(23651)) =>
               (lastT' = None /\ (HasFoundation' => Phase' = "Encyclopedia"))
          /\ (ret'.op = "run_asimov_demo.event" /\ ret'.arg.val >= Year(23651)) =>
               Phase' = ExpectedPhase(ret'.arg.val - Year(23651))
          /\ pc' > Len(timeline) => Phase' = "Federation"
          /\ ret'.op = "run_asimov_demo.report" => ret'.value = Str("Federation")]_vars

\* C9 witness: update_phase just below age 300 left the phase at Trade
C9_Witness ==
  /\ ret.op = "update_phase" /\ ret.arg = Num(Year(23951) - 1)
  /\ lastT = ret.arg /\ Phase = "Trade"

\* the processed events with year >= 23651 whose text contains "Crisis"
ProcessedCrises ==
  {i \in Processed : timeline[i].year >= Year(23651) /\ ContainsCrisis(timeline[i].event)}

\* C10: seldon_crisis fires exactly when |current_time - crisis_time| < 1:
\* current_crisis + 1, subject_worlds + 2, scientific_superiority * 1.1,
\* returns True; otherwise returns False and changes nothing; psychohistory
\* is never modified. In the demo subject_worlds = 1 + 2 * current_crisis,
\* current_crisis counts the processed crisis events, never decreases and
\* ends at 2.
C10_SeldonCrisis ==
  [][/\ ret'.op = "seldon_crisis" =>
          IF Abs(ret'.arg.val) < TimeScale
          THEN /\ ret'.value = Bool(TRUE)
               /\ Crises' = Crises + 1
               /\ Worlds' = Worlds + 2
               /\ Superiority' * 10 = Superiority * 11
               /\ \A n \in DOMAIN nodes \ {"Foundation"} : nodes'[n] = nodes[n]
               /\ \A a \in {"founding_year", "phase"} :
                    nodes'["Foundation"][a] = nodes["Foundation"][a]
          ELSE ret'.value = Bool(FALSE) /\ nodes' = nodes
     /\ ("Psychohistory" \in DOMAIN nodes)
          => nodes'["Psychohistory"] = nodes["Psychohistory"]
     /\ HasFoundation' => Worlds' = 1 + 2 * Crises'
     /\ HasFoundation => Crises' >= Crises
     /\ (driver = "asimov_demo" /\ HasFoundation') =>
          /\ Crises' = Cardinality(ProcessedCrises')
          /\ Superiority' * (10 ^ Crises') = ((8 * SciScale) \div 10) * (11 ^ Crises')
          /\ pc' > Len(timeline) => Crises' = 2]_vars

\* C10 witness: a crisis fired half a time unit away from the crisis time
C10_Witness ==
  /\ ret.op = "seldon_crisis" /\ ret.value = Bool(TRUE) /\ ret.arg = Num(1)
  /\ Crises = 2 /\ Worlds = 5

====
